---- MODULE Spec2Model ----
(***************************************************************************)
(* Model of the movie-database-api service: the TMDB synchronisation       *)
(* routine RetrieveService.updateDatabase (getMovies, getMovieDetails,     *)
(* isValidMovie, ExternalRequest.get), the Movies collection with its two  *)
(* unique indexes, and the CRUD methods of PersistenceService.             *)
(*                                                                         *)
(* Every await of the TypeScript code is a point where other requests may  *)
(* run, so each handler is cut into one action per await: the action that  *)
(* issues an operation and the action in which its promise settles.        *)
(***************************************************************************)
EXTENDS Naturals, Sequences, FiniteSets, TLC

\* ---------------------------------------------------------------- bounds
\* external catalog ids are 1..MaxId
MaxId == 2
\* longest upstream candidate list
MaxList == 2
\* number of updateDatabase() invocations
MaxSync == 2
\* number of PersistenceService requests
MaxReq == 1
\* PersistenceService requests when the service is exercised alone
MaxCrud == 3
\* the longest required-field list a direct isValidMovie call is given
MaxFields == 2

Ids == 1..MaxId
Calls == 1..MaxSync
Reqs == 1..MaxReq
\* the longest list given to a call that runs alone: long enough for an
\* external id to occur twice around another one
MaxLong == MaxList + 1
CrudReqs == 1..MaxCrud

VARIABLES
    tmdbList,       \* what the TMDB discover endpoint answers
    tmdbDetail,     \* what the TMDB detail endpoint answers, per external id
    store,          \* the Movies collection: a set of documents
    sync,           \* per updateDatabase() invocation: its locals and position
    trace,          \* per invocation: what it has been observed to do
    req,            \* per PersistenceService request: its locals and position
    lastCompleted,  \* the operation that completed last
    validation      \* a direct call of isValidMovie: its arguments and result

vars == <<tmdbList, tmdbDetail, store, sync, trace, req, lastCompleted, validation>>

\* ------------------------------------------------------- JavaScript values
\* A field value: undefined, null, a string or a number (v = 0 is "" or 0),
\* or a genre array.
Undefined == [t |-> "undefined", v |-> 0]
Null == [t |-> "null", v |-> 0]
Str(k) == [t |-> "string", v |-> k]
Num(k) == [t |-> "number", v |-> k]
Genres(k) == [t |-> "array", v |-> k]

\* TmdbMovieDto: an object as TMDB sends it.
NoObject ==
    [id |-> 0, original_title |-> Undefined, overview |-> Undefined,
     popularity |-> Undefined, vote_average |-> Undefined,
     vote_count |-> Undefined, release_date |-> Undefined, genres |-> Undefined]

\* An element of the discover list for external id i: every list field set,
\* all values different.
TmdbMovie(i) ==
    [id |-> i, original_title |-> Str(10 * i + 1), overview |-> Str(10 * i + 2),
     popularity |-> Num(10 * i + 3), vote_average |-> Num(10 * i + 4),
     vote_count |-> Num(10 * i + 5), release_date |-> Str(10 * i + 6),
     genres |-> Undefined]

\* The detail object of external id i.
TmdbDetails(i) == [TmdbMovie(i) EXCEPT !.genres = Genres(i)]

\* A parsed JSON value: an array of objects, one object, a falsy primitive
\* (0, false, ""), null, or undefined (a property that is not there).
JsArray(items) == [t |-> "array", items |-> items, obj |-> NoObject]
JsObject(o) == [t |-> "object", items |-> <<>>, obj |-> o]
JsFalsy == [t |-> "falsy", items |-> <<>>, obj |-> NoObject]
JsNull == [t |-> "null", items |-> <<>>, obj |-> NoObject]
JsUndefined == [t |-> "undefined", items |-> <<>>, obj |-> NoObject]

Truthy(val) == val.t \in {"array", "object"}

\* What fetch() and response.json() give: a rejection, or the parsed body
\* `data` together with its property `data.results`.
FetchError == [kind |-> "fetch_error", data |-> JsUndefined, results |-> JsUndefined]
Json(data, results) == [kind |-> "json", data |-> data, results |-> results]

\* ------------------------------------------------------ results and errors
NoError == [name |-> "", message |-> ""]
Throw(name, message) ==
    [ok |-> FALSE, val |-> JsUndefined, err |-> [name |-> name, message |-> message]]
Return(val) == [ok |-> TRUE, val |-> val, err |-> NoError]

BadRequestException == "BadRequestException"
InternalServerErrorException == "InternalServerErrorException"
NotFoundException == "NotFoundException"

\* ------------------------------------------------- ExternalRequest.get
\* try { data = await (await fetch()).json();
\*       return data.results ? data.results : data } catch { throw new Error }
\* Reading .results of null throws inside the try.
ExternalRequestGet(raw) ==
    IF raw.kind = "fetch_error" \/ raw.data.t \in {"null", "undefined"}
    THEN Throw("Error", "Failed to fetch data from external source")
    ELSE IF Truthy(raw.results) THEN Return(raw.results) ELSE Return(raw.data)

\* ------------------------------------------------- RetrieveService
\* a truthiness test in place of !== undefined: null, "" and 0 fail
isValidMovieTruthy(requiredFields, movie) ==
    \A k \in 1..Len(requiredFields) :
        LET val == movie[requiredFields[k]]
        IN  val.t \notin {"undefined", "null"} /\ val.v # 0

\* != null in place of !== undefined: null fails as undefined does
isValidMovieNotNull(requiredFields, movie) ==
    \A k \in 1..Len(requiredFields) :
        movie[requiredFields[k]].t \notin {"undefined", "null"}

\* requiredFields.every((field) => movie[field] !== undefined)
isValidMovie(requiredFields, movie) ==
    \A k \in 1..Len(requiredFields) : movie[requiredFields[k]] # Undefined

\* release_date forgotten
requiredFieldsShort ==
    <<"original_title", "overview", "popularity", "vote_average", "vote_count">>

requiredFields ==
    <<"original_title", "overview", "popularity", "vote_average", "vote_count",
      "release_date">>

requiredFieldsForDetails == <<"genres">>

\* Array.isArray forgotten: any truthy response goes on to the field check
getMoviesNoArrayCheck(raw) ==
    LET got == ExternalRequestGet(raw)
        response == got.val
    IN  IF ~got.ok THEN got
        ELSE IF ~Truthy(response)
        THEN Throw(BadRequestException, "Invalid response format from TMDB API")
        ELSE IF ~(\A k \in 1..Len(response.items) :
                     isValidMovie(requiredFields, response.items[k]))
        THEN Throw(BadRequestException,
                   "Response contains movies with missing required fields")
        ELSE Return(response)

\* an empty array taken for an invalid response
getMoviesRejectsEmpty(raw) ==
    LET got == ExternalRequestGet(raw)
        response == got.val
    IN  IF ~got.ok THEN got
        ELSE IF ~Truthy(response) \/ response.t # "array" \/ Len(response.items) = 0
        THEN Throw(BadRequestException, "Invalid response format from TMDB API")
        ELSE IF ~(\A k \in 1..Len(response.items) :
                     isValidMovie(requiredFields, response.items[k]))
        THEN Throw(BadRequestException,
                   "Response contains movies with missing required fields")
        ELSE Return(response)

getMovies(raw) ==
    LET got == ExternalRequestGet(raw)
        response == got.val
    IN  IF ~got.ok THEN got
        ELSE IF ~Truthy(response) \/ response.t # "array"
        THEN Throw(BadRequestException, "Invalid response format from TMDB API")
        ELSE IF ~(\A k \in 1..Len(response.items) :
                     isValidMovie(requiredFields, response.items[k]))
        THEN Throw(BadRequestException,
                   "Response contains movies with missing required fields")
        ELSE Return(response)

\* the two checks in the other order: the genre check first
getMovieDetailsGenresFirst(raw) ==
    LET got == ExternalRequestGet(raw)
        details == got.val
    IN  IF ~got.ok THEN got
        ELSE IF ~isValidMovie(requiredFieldsForDetails, details.obj)
        THEN Throw(BadRequestException,
                   "Response contains movies with missing required fields")
        ELSE IF ~Truthy(details)
        THEN Throw(BadRequestException, "Movie details not found")
        ELSE Return(details)

getMovieDetails(raw) ==
    LET got == ExternalRequestGet(raw)
        details == got.val
    IN  IF ~got.ok THEN got
        ELSE IF ~Truthy(details)
        THEN Throw(BadRequestException, "Movie details not found")
        ELSE IF ~isValidMovie(requiredFieldsForDetails, details.obj)
        THEN Throw(BadRequestException,
                   "Response contains movies with missing required fields")
        ELSE Return(details)

\* crypto.randomUUID(): a value no other call of it returns. The one drawn
\* for candidate i of updateDatabase() call c, and the one drawn by
\* PersistenceService request r.
randomUUID(c, i) == c * (MaxLong + 1) + i
requestUUID(r) == (MaxSync + 1) * (MaxLong + 1) + r

\* genres read from the list element instead of the detail object
ModelGenresOfMovie(movie, details, id) ==
    [tmdb_id |-> movie.id, id |-> id, name |-> movie.original_title,
     overview |-> movie.overview, popularity |-> movie.popularity,
     voteAverage |-> movie.vote_average, voteCount |-> movie.vote_count,
     releaseDate |-> movie.release_date, genres |-> movie.genres]

\* models.push({ tmdb_id: movie.id, id: crypto.randomUUID(), ... })
Model(movie, details, id) ==
    [tmdb_id |-> movie.id, id |-> id, name |-> movie.original_title,
     overview |-> movie.overview, popularity |-> movie.popularity,
     voteAverage |-> movie.vote_average, voteCount |-> movie.vote_count,
     releaseDate |-> movie.release_date, genres |-> details.obj.genres]

\* the instanceof test forgotten: every error is wrapped
CatchWrapsAll(err) ==
    [name |-> InternalServerErrorException,
     message |-> "Failed to update database: " \o err.message]

\* the catch block of updateDatabase
Catch(err) ==
    IF err.name = BadRequestException THEN err
    ELSE [name |-> InternalServerErrorException,
          message |-> "Failed to update database: " \o err.message]

\* ------------------------------------------------- the Movies collection
\* @Prop({ required: true }): Mongoose's required validator rejects
\* undefined and null, and the empty string for a String path.
Required(val) == val.t \notin {"undefined", "null"} /\ ~(val.t = "string" /\ val.v = 0)

ValidDocument(doc) ==
    /\ Required(doc.name) /\ Required(doc.overview) /\ Required(doc.popularity)
    /\ Required(doc.voteAverage) /\ Required(doc.voteCount)
    /\ Required(doc.releaseDate)

\* unique forgotten on tmdb_id
DuplicateKeyIdOnly(docs, doc) == \E d \in docs : d.id = doc.id

\* @Prop({ unique: true }) on id and on tmdb_id: the two unique indexes.
DuplicateKey(docs, doc) ==
    \E d \in docs : d.id = doc.id \/ d.tmdb_id = doc.tmdb_id

StoreError == [name |-> "Error", message |-> "Database connection failed"]
ValidationError == [name |-> "ValidationError", message |-> "Movies validation failed"]
DuplicateKeyError == [name |-> "MongoServerError", message |-> "E11000 duplicate key error"]

\* The ordered insert: documents go in one after the other and the first
\* duplicate key stops the operation, leaving the earlier ones stored.
RECURSIVE InsertOrdered(_, _, _)
InsertOrdered(docs, batch, k) ==
    IF k > Len(batch) THEN [docs |-> docs, err |-> NoError]
    ELSE IF DuplicateKey(docs, batch[k]) THEN [docs |-> docs, err |-> DuplicateKeyError]
    ELSE InsertOrdered(docs \cup {batch[k]}, batch, k + 1)

\* { ordered: false }: a refused document does not stop the operation, the
\* documents after it are stored
insertManyUnordered(docs, batch) ==
    IF \E k \in 1..Len(batch) : ~ValidDocument(batch[k])
    THEN [docs |-> docs, err |-> ValidationError]
    ELSE LET refused == {k \in 1..Len(batch) :
                            DuplicateKey(docs \cup {batch[j] : j \in 1..(k - 1)}, batch[k])}
         IN  [docs |-> docs \cup {batch[k] : k \in (1..Len(batch)) \ refused},
              err |-> IF refused = {} THEN NoError ELSE DuplicateKeyError]

\* an upsert on the external id: a stored record with the external id of a
\* batch record is replaced by it
insertManyUpsert(docs, batch) ==
    IF \E k \in 1..Len(batch) : ~ValidDocument(batch[k])
    THEN [docs |-> docs, err |-> ValidationError]
    ELSE [docs |-> {d \in docs : \A k \in 1..Len(batch) : d.tmdb_id # batch[k].tmdb_id}
                      \cup {batch[k] : k \in 1..Len(batch)},
          err |-> NoError]

\* no unique index consulted: every valid batch is stored whole
insertManyUnchecked(docs, batch) ==
    IF \E k \in 1..Len(batch) : ~ValidDocument(batch[k])
    THEN [docs |-> docs, err |-> ValidationError]
    ELSE [docs |-> docs \cup {batch[k] : k \in 1..Len(batch)}, err |-> NoError]

\* Model.insertMany: Mongoose validates every document first and sends
\* nothing when one of them is invalid.
insertMany(docs, batch) ==
    IF \E k \in 1..Len(batch) : ~ValidDocument(batch[k])
    THEN [docs |-> docs, err |-> ValidationError]
    ELSE InsertOrdered(docs, batch, 1)

\* Model.find({ tmdb_id: { $in: ids } })
find(docs, ids) == {d \in docs : d.tmdb_id \in ids}

TmdbIds(models) == {models[k].tmdb_id : k \in 1..Len(models)}

\* the negation forgotten: the movies already stored are kept
NewMoviesInverted(models, existingTmdbIds) ==
    SelectSeq(models, LAMBDA m : m.tmdb_id \in existingTmdbIds)

\* the filter forgotten
NewMoviesUnfiltered(models, existingTmdbIds) == models

\* models.filter((m) => !existingTmdbIds.includes(m.tmdb_id))
NewMovies(models, existingTmdbIds) ==
    SelectSeq(models, LAMBDA m : m.tmdb_id \notin existingTmdbIds)

\* models.length reported
UpdatedCountOfModels(models, newMovies) == Len(models)

\* updatedCount: newMovies.length
UpdatedCount(models, newMovies) == Len(newMovies)

\* await Promise.all(...) resumes the function when the call is still
\* suspended on it (no promise has rejected) and no promise is outstanding.
\* a wait-all gather: resumes when nothing is outstanding, rejected or not
PromiseAllWaitsAll(awaited, rest) == rest = {}

\* the fulfilment of the last promise is lost: the function never resumes
PromiseAllNeverResolves(awaited, rest) == FALSE

\* a race: resumes as soon as one promise has fulfilled
PromiseAllResolvesFirst(awaited, rest) == awaited

PromiseAllResolves(awaited, rest) == awaited /\ rest = {}

\* the last rejection wins: a late failure replaces the reported outcome
PromiseSettlesAgain(awaited, outcome, old) == outcome

\* A promise settles once: the rejection of a callback reaches the catch
\* block only while the function is suspended on Promise.all; afterwards
\* the outcome stays what it was.
PromiseSettles(awaited, outcome, old) == IF awaited THEN outcome ELSE old

\* no guard: insertMany is always called
ShouldInsertAlways(newMovies) == TRUE

\* newMovies.length > 1
ShouldInsertSeveral(newMovies) == Len(newMovies) > 1

\* if (newMovies.length > 0)
ShouldInsert(newMovies) == Len(newMovies) > 0

\* ------------------------------------------------- upstream answers
RECURSIVE SeqsUpTo(_, _)
SeqsUpTo(S, n) ==
    IF n = 0 THEN {<<>>}
    ELSE LET shorter == SeqsUpTo(S, n - 1)
         IN  shorter \cup {Append(s, x) : s \in shorter, x \in S}

\* A list element that lacks a required field, and one whose title is "".
Incomplete(i) == [TmdbMovie(i) EXCEPT !.overview = Undefined]
Untitled(i) == [TmdbMovie(i) EXCEPT !.original_title = Str(0)]

\* The discover endpoint answers { results: [...] }; it may also fail, or
\* answer an object without results, null, or a falsy value.
DiscoverAnswers ==
    {Json(JsObject(NoObject), JsArray(s)) : s \in SeqsUpTo({TmdbMovie(i) : i \in Ids}, MaxList)}
    \cup {Json(JsObject(NoObject), JsArray(<<Incomplete(1)>>)),
          Json(JsObject(NoObject), JsArray(<<Untitled(1)>>)),
          Json(JsObject(NoObject), JsUndefined),
          Json(JsFalsy, JsUndefined),
          Json(JsNull, JsUndefined),
          FetchError}

\* The detail endpoint answers the bare object; it may also fail, answer an
\* object without genres, or a falsy value.
DetailAnswers(i) ==
    {Json(JsObject(TmdbDetails(i)), JsUndefined),
     Json(JsObject(TmdbMovie(i)), JsUndefined),
     Json(JsFalsy, JsUndefined),
     FetchError}

\* ------------------------------------------------- state
\* The subclasses of HttpException the services throw, and their statuses.
HttpExceptions == {BadRequestException, NotFoundException, InternalServerErrorException}

getStatus(err) ==
    IF err.name = BadRequestException THEN 400
    ELSE IF err.name = NotFoundException THEN 404
    ELSE 500

\* the status hard-wired: every error is answered 500
GlobalExceptionFilterAlways500(err) == 500

\* GlobalExceptionFilter.catch: the status of the response to an error that
\* left a handler
GlobalExceptionFilter(err) ==
    IF err.name \in HttpExceptions THEN getStatus(err) ELSE 500

\* The outcome of a call, with the status of the HTTP response it is given.
NoResult == [name |-> "", message |-> "", updatedCount |-> 0, statusCode |-> 0]
Success(n) ==
    [name |-> "OK", message |-> "Database updated successfully", updatedCount |-> n,
     statusCode |-> 200]
Failure(err) ==
    [name |-> err.name, message |-> err.message, updatedCount |-> 0,
     statusCode |-> GlobalExceptionFilter(err)]

IdleSync ==
    [pc |-> "idle", filteredMovies |-> <<>>, pending |-> {}, models |-> <<>>,
     newMovies |-> <<>>, result |-> NoResult]

NoTrace ==
    [listCalls |-> 0, detailCalls |-> 0, findCalls |-> 0, insertCalls |-> 0,
     got |-> Return(JsUndefined), listed |-> FALSE, queried |-> FALSE,
     batch |-> <<>>, inserted |-> {}, storeAtStart |-> {}, storeAtFind |-> {},
     storeAtEnd |-> {}, cause |-> NoError, detailError |-> NoError, after |-> 0, alone |-> FALSE,
     details |-> [i \in 1..MaxLong |-> Return(JsUndefined)]]

\* CreatePersistenceDto for external id i, as the ValidationPipe lets it through.
CreatePersistenceDto(i) ==
    [tmdb_id |-> i, id |-> 0, name |-> Str(100 + 10 * i + 1),
     overview |-> Str(100 + 10 * i + 2), popularity |-> Num(100 + 10 * i + 3),
     voteAverage |-> Num(100 + 10 * i + 4), voteCount |-> Num(100 + 10 * i + 5),
     releaseDate |-> Str(100 + 10 * i + 6), genres |-> Genres(100 + i)]

NoDto == CreatePersistenceDto(0)

\* UpdatePersistenceDto: the fields the client sends, here one of them.
UpdateDtos ==
    {[fields |-> {"tmdb_id"}, values |-> CreatePersistenceDto(i)] : i \in Ids}
    \cup {[fields |-> {"name"}, values |-> [NoDto EXCEPT !.name = Str(200)]]}

NoUpdate == [fields |-> {}, values |-> NoDto]

\* the document after $set of the fields sent
Updated(doc, dto) ==
    [f \in DOMAIN doc |-> IF f \in dto.fields THEN dto.values[f] ELSE doc[f]]

NoOutcome == [name |-> "", message |-> "", docs |-> {}, statusCode |-> 0]
Resolved(docs) == [name |-> "OK", message |-> "", docs |-> docs, statusCode |-> 200]
\* @Post() answers 201
Created(docs) == [name |-> "OK", message |-> "", docs |-> docs, statusCode |-> 201]
Rejected(err) ==
    [name |-> err.name, message |-> err.message, docs |-> {},
     statusCode |-> GlobalExceptionFilter(err)]

\* A request: its position, its arguments and locals, its outcome; and
\* what was observed of it: the dto save was given, whether a record had the
\* id when the request began, the requests that had ended by then, and the
\* error a store operation of it raised.
IdleReq ==
    [pc |-> "idle", op |-> "", id |-> 0, doc |-> NoDto, dto |-> NoUpdate,
     result |-> NoOutcome, input |-> NoDto, existed |-> FALSE, earlier |-> {},
     cause |-> NoError]

IdleValidation ==
    [pc |-> "idle", requiredFields |-> <<>>, movie |-> NoObject, result |-> FALSE]

\* the external ids the discover answer lists
Listed(raw) ==
    IF getMovies(raw).ok
    THEN {getMovies(raw).val.items[k].id : k \in 1..Len(getMovies(raw).val.items)}
    ELSE {}

\* The detail endpoint is asked for listed ids only: the answer for any
\* other id is left at the plain one.
Init ==
    /\ tmdbList \in DiscoverAnswers
    /\ tmdbDetail \in {f \in [Ids -> UNION {DetailAnswers(i) : i \in Ids}] :
                          \A i \in Ids :
                              /\ f[i] \in DetailAnswers(i)
                              /\ i \notin Listed(tmdbList) =>
                                     f[i] = Json(JsObject(TmdbDetails(i)), JsUndefined)}
    /\ store = {}
    /\ sync = [c \in Calls |-> IdleSync]
    /\ trace = [c \in Calls |-> NoTrace]
    /\ req = [r \in Reqs |-> IdleReq]
    /\ lastCompleted = 0
    /\ validation = IdleValidation

Running(c) == sync[c].pc \notin {"idle", "done"}
Busy(r) == req[r].pc \notin {"idle", "done"}

\* Another operation starts: the invocations under way no longer run alone.
Disturb(tr, c) ==
    [x \in Calls |-> IF x # c /\ Running(x) THEN [tr[x] EXCEPT !.alone = FALSE] ELSE tr[x]]

\* no updateDatabase() call and no PersistenceService request is under way
Quiet == (\A x \in Calls : ~Running(x)) /\ (\A r \in Reqs : ~Busy(r))

\* ------------------------------------------------- updateDatabase
\* The call enters the try block and issues the discover request. Calls
\* are numbered in the order in which they start.
UpdateDatabase(c) ==
    /\ sync[c].pc = "idle"
    /\ \A x \in Calls : x < c => sync[x].pc # "idle"
    /\ sync' = [sync EXCEPT ![c].pc = "getMovies"]
    /\ trace' = [Disturb(trace, c) EXCEPT
                    ![c].listCalls = @ + 1,
                    ![c].storeAtStart = store,
                    ![c].alone = Quiet,
                    ![c].after = IF Quiet THEN lastCompleted ELSE 0]
    /\ UNCHANGED <<validation, tmdbList, tmdbDetail, store, req, lastCompleted>>

\* getMovies() settles. On success the map callback runs for every movie
\* up to its first await, which issues every detail request; Promise.all of
\* no promise resolves at once and the find query is issued.
GetMoviesReturn(c) ==
    /\ sync[c].pc = "getMovies"
    /\ LET got == getMovies(tmdbList)
           filteredMovies == got.val.items
       IN  IF got.ok
           THEN /\ sync' = [sync EXCEPT
                       ![c].filteredMovies = filteredMovies,
                       ![c].pending = 1..Len(filteredMovies),
                       ![c].pc = IF Len(filteredMovies) = 0 THEN "find" ELSE "details"]
                /\ trace' = [trace EXCEPT
                       ![c].got = got,
                       ![c].listed = TRUE,
                       ![c].detailCalls = @ + Len(filteredMovies),
                       ![c].findCalls = IF Len(filteredMovies) = 0 THEN @ + 1 ELSE @]
                /\ UNCHANGED lastCompleted
           ELSE /\ sync' = [sync EXCEPT ![c].pc = "done",
                                        ![c].result = Failure(Catch(got.err))]
                /\ trace' = [trace EXCEPT ![c].got = got, ![c].cause = got.err,
                                          ![c].storeAtEnd = store]
                /\ lastCompleted' = c
    /\ UNCHANGED <<validation, tmdbList, tmdbDetail, store, req>>

\* One getMovieDetails(movie.id) settles, in any order. While Promise.all is
\* pending a rejection rejects it and the catch block ends the call; the
\* last fulfilment resolves it and the find query is issued. After the call
\* has ended the callbacks still in flight go on pushing to models.
DetailsReturn(c, i) ==
    /\ sync[c].pc \in {"details", "done"}
    /\ i \in sync[c].pending
    /\ LET movie == sync[c].filteredMovies[i]
           got == getMovieDetails(tmdbDetail[movie.id])
           rest == sync[c].pending \ {i}
           awaited == sync[c].pc = "details"
       IN  IF got.ok
           THEN /\ sync' = [sync EXCEPT
                       ![c].pending = rest,
                       ![c].models = Append(@, Model(movie, got.val, randomUUID(c, i))),
                       ![c].pc = IF PromiseAllResolves(awaited, rest) THEN "find" ELSE @]
                /\ trace' = [trace EXCEPT
                       ![c].details[i] = got,
                       ![c].findCalls = IF PromiseAllResolves(awaited, rest)
                                        THEN @ + 1 ELSE @]
                /\ UNCHANGED lastCompleted
           ELSE /\ sync' = [sync EXCEPT
                       ![c].pending = rest,
                       ![c].pc = "done",
                       ![c].result = PromiseSettles(awaited, Failure(Catch(got.err)), @)]
                /\ trace' = [trace EXCEPT
                       ![c].details[i] = got,
                       ![c].cause = IF awaited THEN got.err ELSE @,
                       ![c].detailError = IF awaited THEN got.err ELSE @,
                       ![c].storeAtEnd = IF awaited THEN store ELSE @]
                /\ lastCompleted' = IF awaited THEN c ELSE lastCompleted
    /\ UNCHANGED <<validation, tmdbList, tmdbDetail, store, req>>

\* movieModel.find settles: the store may fail; otherwise the new movies
\* are computed and, if there are any, insertMany is issued.
FindReturn(c) ==
    /\ sync[c].pc = "find"
    /\ \E fails \in BOOLEAN :
        IF fails
        THEN /\ sync' = [sync EXCEPT ![c].pc = "done",
                                     ![c].result = Failure(Catch(StoreError))]
             /\ trace' = [trace EXCEPT ![c].cause = StoreError,
                                       ![c].storeAtEnd = store]
             /\ lastCompleted' = c
        ELSE LET models == sync[c].models
                 existingMovies == find(store, TmdbIds(models))
                 existingTmdbIds == {m.tmdb_id : m \in existingMovies}
                 newMovies == NewMovies(models, existingTmdbIds)
             IN  /\ sync' = [sync EXCEPT
                        ![c].newMovies = newMovies,
                        ![c].pc = IF ShouldInsert(newMovies) THEN "insertMany" ELSE "done",
                        ![c].result = IF ShouldInsert(newMovies) THEN @
                                      ELSE Success(UpdatedCount(models, newMovies))]
                 /\ trace' = [trace EXCEPT
                        ![c].queried = TRUE,
                        ![c].storeAtFind = store,
                        ![c].storeAtEnd = store,
                        ![c].insertCalls = IF ShouldInsert(newMovies) THEN @ + 1 ELSE @,
                        ![c].batch = IF ShouldInsert(newMovies) THEN newMovies ELSE @]
                 /\ lastCompleted' = IF ShouldInsert(newMovies) THEN lastCompleted ELSE c
    /\ UNCHANGED <<validation, tmdbList, tmdbDetail, store, req>>

\* movieModel.insertMany settles.
InsertManyReturn(c) ==
    /\ sync[c].pc = "insertMany"
    /\ \E fails \in BOOLEAN :
        LET out == IF fails THEN [docs |-> store, err |-> StoreError]
                   ELSE insertMany(store, sync[c].newMovies)
        IN  /\ store' = out.docs
            /\ sync' = [sync EXCEPT
                   ![c].pc = "done",
                   ![c].result =
                       IF out.err = NoError
                       THEN Success(UpdatedCount(sync[c].models, sync[c].newMovies))
                       ELSE Failure(Catch(out.err))]
            /\ trace' = [trace EXCEPT ![c].inserted = out.docs \ store,
                                      ![c].storeAtEnd = out.docs,
                                      ![c].cause = out.err]
            /\ lastCompleted' = c
    /\ UNCHANGED <<validation, tmdbList, tmdbDetail, req>>

\* ------------------------------------------------- PersistenceService
NotFound(id) == [name |-> NotFoundException, message |-> "Movie with id not found"]
Wrapped(prefix, err) ==
    [name |-> InternalServerErrorException, message |-> prefix \o err.message]

\* Model.findOne({ id })
findOne(docs, id) == {d \in docs : d.id = id}

\* Model.create: validation, then the insert with its unique indexes.
create(docs, doc) ==
    IF ~ValidDocument(doc) THEN [docs |-> docs, err |-> ValidationError]
    ELSE IF DuplicateKey(docs, doc) THEN [docs |-> docs, err |-> DuplicateKeyError]
    ELSE [docs |-> docs \cup {doc}, err |-> NoError]

\* Model.findOneAndUpdate({ id }, dto, { new: true }): null when no document
\* matches; the unique indexes hold for the updated document.
findOneAndUpdate(docs, id, dto) ==
    LET found == findOne(docs, id)
        new == {Updated(d, dto) : d \in found}
        others == docs \ found
    IN  IF \E n \in new : DuplicateKey(others, n)
        THEN [docs |-> docs, out |-> {}, err |-> DuplicateKeyError]
        ELSE [docs |-> others \cup new, out |-> new, err |-> NoError]

\* Model.findOneAndDelete({ id }): null when no document matches.
\* a delete that finds no record throws NotFoundException
findOneAndDeleteStrict(docs, id) ==
    IF findOne(docs, id) = {}
    THEN [docs |-> docs, out |-> {},
          err |-> [name |-> NotFoundException, message |-> "Movie with id not found"]]
    ELSE [docs |-> docs \ findOne(docs, id), out |-> findOne(docs, id), err |-> NoError]

\* the record is returned and stays in the collection
findOneAndDeleteKeeps(docs, id) ==
    [docs |-> docs, out |-> findOne(docs, id), err |-> NoError]

findOneAndDelete(docs, id) ==
    [docs |-> docs \ findOne(docs, id), out |-> findOne(docs, id), err |-> NoError]

\* The ids a client may ask for: those stored, those an earlier request
\* returned, and one that is not stored.
ClientIds ==
    {0} \cup {d.id : d \in store}
        \cup {d.id : d \in UNION {req[q].result.docs : q \in DOMAIN req}}

\* the id of the test suite's mockMovie: one the service never generates
ForeignId == 1

\* A request starts: it issues its first store operation. Requests are
\* numbered in the order in which they start.
Begin(r, op, pc, id, doc, dto, input) ==
    /\ req[r].pc = "idle"
    /\ \A q \in DOMAIN req : q < r => req[q].pc # "idle"
    /\ req' = [req EXCEPT ![r] =
                  [pc |-> pc, op |-> op, id |-> id, doc |-> doc, dto |-> dto,
                   result |-> NoOutcome, input |-> input,
                   existed |-> findOne(store, id) # {},
                   earlier |-> {q \in DOMAIN req : req[q].pc = "done"},
                   cause |-> NoError]]
    /\ trace' = Disturb(trace, 0)
    /\ UNCHANGED <<validation, tmdbList, tmdbDetail, store, sync, lastCompleted>>

\* The request settles; cause is the error its store operation raised.
End(r, result, cause) ==
    /\ req' = [req EXCEPT ![r].pc = "done", ![r].result = result, ![r].cause = cause]
    /\ lastCompleted' = 0

\* id written first and the dto spread over it: an id in the dto survives
NewMovieKeepsId(dto, id) == IF dto.id # 0 THEN dto ELSE [dto EXCEPT !.id = id]

\* { ...createPersistenceDto, id: crypto.randomUUID() }
NewMovie(dto, id) == [dto EXCEPT !.id = id]

\* the instanceof test forgotten: NotFoundException is wrapped as well
CatchCrudWrapsAll(prefix, err) == Wrapped(prefix, err)

\* the catch block of findById, updateById and removeById: NotFoundException
\* is rethrown, any other error is wrapped
CatchCrud(prefix, err) ==
    IF err.name = NotFoundException THEN err ELSE Wrapped(prefix, err)

\* save looks the external id up first and issues no insert when it is stored
SaveOperationChecked(docs, dto) ==
    IF \E d \in docs : d.tmdb_id = dto.tmdb_id THEN "findOne" ELSE "create"

\* the store operation save issues: the insert, whatever the collection holds
SaveOperation(docs, dto) == "create"

\* save: movieModel.create({ ...dto, id: crypto.randomUUID() }) inside try.
\* The dto is for external id i; x is the id it carries, 0 when it has none.
Save(r, i, x) ==
    /\ i \in Ids
    /\ LET dto == [CreatePersistenceDto(i) EXCEPT !.id = x]
       IN  Begin(r, "save", SaveOperation(store, dto), 0,
                 NewMovie(dto, requestUUID(r)), NoUpdate, dto)

CreateReturn(r) ==
    /\ req[r].pc = "create"
    /\ \E fails \in BOOLEAN :
        LET out == IF fails THEN [docs |-> store, err |-> StoreError]
                   ELSE create(store, req[r].doc)
        IN  /\ store' = out.docs
            /\ End(r, IF out.err = NoError THEN Created({req[r].doc})
                      ELSE Rejected(Wrapped("Failed to create movie: ", out.err)),
                   out.err)
    /\ UNCHANGED <<validation, tmdbList, tmdbDetail, sync, trace>>

\* findAll: movieModel.find() inside try
FindAll(r) ==
    Begin(r, "findAll", "find", 0, NoDto, NoUpdate, NoDto)

FindAllReturn(r) ==
    /\ req[r].pc = "find"
    /\ \E fails \in BOOLEAN :
        End(r, IF fails THEN Rejected(Wrapped("Failed to find movies: ", StoreError))
               ELSE Resolved(store),
            IF fails THEN StoreError ELSE NoError)
    /\ UNCHANGED <<validation, tmdbList, tmdbDetail, store, sync, trace>>

\* findById, updateById and removeById all begin with movieModel.findOne({ id })
FindById(r, id) ==
    Begin(r, "findById", "findOne", id, NoDto, NoUpdate, NoDto)

UpdateById(r, id, dto) ==
    Begin(r, "updateById", "findOne", id, NoDto, dto, NoDto)

RemoveById(r, id) ==
    Begin(r, "removeById", "findOne", id, NoDto, NoUpdate, NoDto)

\* findOne settles. In findById and updateById it is inside the try block,
\* whose catch rethrows NotFoundException and wraps the rest; in removeById
\* it is before the try block. A found movie is returned by findById and
\* makes the two others issue their second operation.
FindOneReturn(r) ==
    /\ req[r].pc = "findOne"
    /\ \E fails \in BOOLEAN :
        LET movie == findOne(store, req[r].id)
            op == req[r].op
            error == IF fails THEN StoreError ELSE NotFound(req[r].id)
        IN  IF fails \/ movie = {}
            THEN End(r, Rejected(
                     IF op = "findById" THEN CatchCrud("Failed to find movie: ", error)
                     ELSE IF op = "updateById"
                     THEN CatchCrud("Failed to update movie: ", error)
                     ELSE error),
                     IF fails THEN StoreError ELSE NoError)
            ELSE IF op = "findById" THEN End(r, Resolved(movie), NoError)
            ELSE /\ req' = [req EXCEPT ![r].pc =
                        IF op = "updateById" THEN "findOneAndUpdate"
                        ELSE "findOneAndDelete"]
                 /\ UNCHANGED lastCompleted
    /\ UNCHANGED <<validation, tmdbList, tmdbDetail, store, sync, trace>>

FindOneAndUpdateReturn(r) ==
    /\ req[r].pc = "findOneAndUpdate"
    /\ \E fails \in BOOLEAN :
        LET out == IF fails THEN [docs |-> store, out |-> {}, err |-> StoreError]
                   ELSE findOneAndUpdate(store, req[r].id, req[r].dto)
        IN  /\ store' = out.docs
            /\ End(r, IF out.err = NoError THEN Resolved(out.out)
                      ELSE Rejected(CatchCrud("Failed to update movie: ", out.err)),
                   out.err)
    /\ UNCHANGED <<validation, tmdbList, tmdbDetail, sync, trace>>

FindOneAndDeleteReturn(r) ==
    /\ req[r].pc = "findOneAndDelete"
    /\ \E fails \in BOOLEAN :
        LET out == IF fails THEN [docs |-> store, out |-> {}, err |-> StoreError]
                   ELSE findOneAndDelete(store, req[r].id)
        IN  /\ store' = out.docs
            /\ End(r, IF out.err = NoError THEN Resolved(out.out)
                      ELSE Rejected(CatchCrud("Failed to delete movie: ", out.err)),
                   out.err)
    /\ UNCHANGED <<validation, tmdbList, tmdbDetail, sync, trace>>

Next ==
    \/ \E c \in Calls : UpdateDatabase(c)
    \/ \E c \in Calls : GetMoviesReturn(c)
    \/ \E c \in Calls : \E i \in 1..MaxList : DetailsReturn(c, i)
    \/ \E c \in Calls : FindReturn(c)
    \/ \E c \in Calls : InsertManyReturn(c)
    \/ \E r \in Reqs : \E i \in Ids : Save(r, i, 0)
    \/ \E r \in Reqs : FindAll(r)
    \/ \E r \in Reqs : \E id \in ClientIds : FindById(r, id)
    \/ \E r \in Reqs : \E id \in ClientIds : \E dto \in UpdateDtos : UpdateById(r, id, dto)
    \/ \E r \in Reqs : \E id \in ClientIds : RemoveById(r, id)
    \/ \E r \in Reqs : CreateReturn(r)
    \/ \E r \in Reqs : FindAllReturn(r)
    \/ \E r \in Reqs : FindOneReturn(r)
    \/ \E r \in Reqs : FindOneAndUpdateReturn(r)
    \/ \E r \in Reqs : FindOneAndDeleteReturn(r)

Spec == Init /\ [][Next]_vars

\* ------------------------------------------------- the fetch functions alone
\* One updateDatabase() call over a wide range of upstream answers: list
\* elements lacking any one required field, or all of them; arrays bare and
\* under results; answers that are no array.
ListFields ==
    {"original_title", "overview", "popularity", "vote_average", "vote_count",
     "release_date"}

Lacking(movie, fields) ==
    [f \in DOMAIN movie |-> IF f \in fields THEN Undefined ELSE movie[f]]

FetchMovies ==
    {TmdbMovie(i) : i \in Ids}
    \cup {Lacking(TmdbMovie(1), {f}) : f \in ListFields}
    \cup {Lacking(TmdbMovie(1), ListFields)}

FetchAnswers ==
    {Json(JsObject(NoObject), JsArray(s)) : s \in SeqsUpTo(FetchMovies, MaxList)}
    \cup {Json(JsArray(<<m>>), JsUndefined) : m \in FetchMovies}
    \cup {Json(JsArray(<<>>), JsUndefined),
          Json(JsObject(NoObject), JsUndefined),
          Json(JsObject(TmdbMovie(1)), JsUndefined),
          Json(JsObject(NoObject), JsNull),
          Json(JsObject(NoObject), JsFalsy),
          Json(JsObject(NoObject), JsObject(TmdbMovie(1))),
          Json(JsFalsy, JsUndefined),
          Json(JsNull, JsUndefined),
          FetchError}

InitFetch ==
    /\ tmdbList \in FetchAnswers
    /\ tmdbDetail = [i \in Ids |-> Json(JsObject(TmdbDetails(i)), JsUndefined)]
    /\ store = {}
    /\ sync = [c \in Calls |-> IdleSync]
    /\ trace = [c \in Calls |-> NoTrace]
    /\ req = [r \in Reqs |-> IdleReq]
    /\ lastCompleted = 0
    /\ validation = IdleValidation

NextFetch ==
    \/ UpdateDatabase(1)
    \/ GetMoviesReturn(1)
    \/ \E i \in 1..MaxList : DetailsReturn(1, i)
    \/ FindReturn(1)
    \/ InsertManyReturn(1)

SpecFetch == InitFetch /\ [][NextFetch]_vars

\* ------------------------------------------------- PersistenceService alone
\* MaxCrud requests to the PersistenceService, overlapping at will, on a
\* collection that starts empty; save is also given dtos that carry an id.
InitCrud ==
    /\ tmdbList = FetchError
    /\ tmdbDetail = [i \in Ids |-> Json(JsObject(TmdbDetails(i)), JsUndefined)]
    /\ store = {}
    /\ sync = [c \in Calls |-> IdleSync]
    /\ trace = [c \in Calls |-> NoTrace]
    /\ req = [r \in CrudReqs |-> IdleReq]
    /\ lastCompleted = 0
    /\ validation = IdleValidation

NextCrud ==
    \/ \E r \in CrudReqs : \E i \in Ids : \E x \in ClientIds \cup {ForeignId} : Save(r, i, x)
    \/ \E r \in CrudReqs : FindAll(r)
    \/ \E r \in CrudReqs : \E id \in ClientIds : FindById(r, id)
    \/ \E r \in CrudReqs : \E id \in ClientIds : \E dto \in UpdateDtos : UpdateById(r, id, dto)
    \/ \E r \in CrudReqs : \E id \in ClientIds : RemoveById(r, id)
    \/ \E r \in CrudReqs : CreateReturn(r)
    \/ \E r \in CrudReqs : FindAllReturn(r)
    \/ \E r \in CrudReqs : FindOneReturn(r)
    \/ \E r \in CrudReqs : FindOneAndUpdateReturn(r)
    \/ \E r \in CrudReqs : FindOneAndDeleteReturn(r)

SpecCrud == InitCrud /\ [][NextCrud]_vars

\* ------------------------------------------------- isValidMovie alone
\* isValidMovie(requiredFields, movie) called directly: the call returns.
IsValidMovieReturn ==
    /\ validation.pc = "call"
    /\ validation' = [validation EXCEPT
           !.pc = "done",
           !.result = isValidMovie(validation.requiredFields, validation.movie)]
    /\ UNCHANGED <<tmdbList, tmdbDetail, store, sync, trace, req, lastCompleted>>

\* The values a property may have: undefined (not there), null, "", 0 and
\* a non-empty string.
FieldValues == {Undefined, Null, Str(0), Num(0), Str(1)}

ValidFields == {"original_title", "overview", "popularity", "genres"}

ValidMovies ==
    {[TmdbMovie(1) EXCEPT !.original_title = a, !.overview = b, !.genres = g] :
        a \in FieldValues, b \in FieldValues, g \in FieldValues}

InitValid ==
    /\ tmdbList = FetchError
    /\ tmdbDetail = [i \in Ids |-> Json(JsObject(TmdbDetails(i)), JsUndefined)]
    /\ store = {}
    /\ sync = [c \in Calls |-> IdleSync]
    /\ trace = [c \in Calls |-> NoTrace]
    /\ req = [r \in Reqs |-> IdleReq]
    /\ lastCompleted = 0
    /\ validation \in
           {[pc |-> "call", requiredFields |-> fields, movie |-> movie, result |-> FALSE] :
               fields \in SeqsUpTo(ValidFields, MaxFields), movie \in ValidMovies}

SpecValid == InitValid /\ [][IsValidMovieReturn]_vars

\* ------------------------------------------------- the detail fetch alone
\* One updateDatabase() call over valid lists and a wide range of detail
\* answers: genres set, null or missing, an empty object, a falsy body, a
\* null body, a body with a results property, a failed request.
WideDetailAnswers(i) ==
    {Json(JsObject(TmdbDetails(i)), JsUndefined),
     Json(JsObject(TmdbMovie(i)), JsUndefined),
     Json(JsObject([TmdbMovie(i) EXCEPT !.genres = Null]), JsUndefined),
     Json(JsObject(NoObject), JsUndefined),
     Json(JsFalsy, JsUndefined),
     Json(JsNull, JsUndefined),
     Json(JsObject(TmdbDetails(i)), JsArray(<<TmdbMovie(i)>>)),
     Json(JsObject(TmdbMovie(i)), JsObject(TmdbDetails(i))),
     Json(JsObject(TmdbDetails(i)), JsFalsy),
     FetchError}

\* a list element whose fields are there with the value null
Nulled(movie, fields) ==
    [f \in DOMAIN movie |-> IF f \in fields THEN Null ELSE movie[f]]

NullMovies ==
    {Nulled(TmdbMovie(1), {"original_title", "overview"}),
     Nulled(TmdbMovie(1), ListFields)}

InitDetails ==
    /\ tmdbList \in {Json(JsObject(NoObject), JsArray(s)) :
                        s \in SeqsUpTo({TmdbMovie(i) : i \in Ids}, MaxList)
                               \cup {<<m>> : m \in NullMovies}}
    /\ tmdbDetail \in {f \in [Ids -> UNION {WideDetailAnswers(i) : i \in Ids}] :
                          \A i \in Ids : f[i] \in WideDetailAnswers(i)}
    /\ store = {}
    /\ sync = [c \in Calls |-> IdleSync]
    /\ trace = [c \in Calls |-> NoTrace]
    /\ req = [r \in Reqs |-> IdleReq]
    /\ lastCompleted = 0
    /\ validation = IdleValidation

SpecDetails == InitDetails /\ [][NextFetch]_vars

\* ------------------------------------------------- one call alone
\* One updateDatabase() call with nothing beside it, on a collection that is
\* empty or holds a record saved earlier, given a valid list of up to
\* MaxLong candidates (an external id may occur more than once) whose detail
\* fetches all succeed, in every order of completion.
StoredMovie == NewMovie(CreatePersistenceDto(1), requestUUID(1))

InitOrder ==
    /\ tmdbList \in {Json(JsObject(NoObject), JsArray(s)) :
                        s \in SeqsUpTo({TmdbMovie(i) : i \in Ids}, MaxLong)}
    /\ tmdbDetail = [i \in Ids |-> Json(JsObject(TmdbDetails(i)), JsUndefined)]
    /\ store \in {{}, {StoredMovie}}
    /\ sync = [c \in Calls |-> IdleSync]
    /\ trace = [c \in Calls |-> NoTrace]
    /\ req = [r \in Reqs |-> IdleReq]
    /\ lastCompleted = 0
    /\ validation = IdleValidation

NextOrder ==
    \/ UpdateDatabase(1)
    \/ GetMoviesReturn(1)
    \/ \E i \in 1..MaxLong : DetailsReturn(1, i)
    \/ FindReturn(1)
    \/ InsertManyReturn(1)

SpecOrder == InitOrder /\ [][NextOrder]_vars

\* ------------------------------------------------- calls that are answered
\* Overlapping updateDatabase() calls whose every fetch and every store
\* operation, once issued, is eventually answered (by a value or an error).
\* Nothing obliges a client to make a call.
NextSync ==
    \/ \E c \in Calls : UpdateDatabase(c)
    \/ \E c \in Calls : GetMoviesReturn(c)
    \/ \E c \in Calls : \E i \in 1..MaxList : DetailsReturn(c, i)
    \/ \E c \in Calls : FindReturn(c)
    \/ \E c \in Calls : InsertManyReturn(c)

Answered ==
    \A c \in Calls :
        /\ WF_vars(GetMoviesReturn(c))
        /\ \A i \in 1..MaxList : WF_vars(DetailsReturn(c, i))
        /\ WF_vars(FindReturn(c))
        /\ WF_vars(InsertManyReturn(c))

SpecLive == InitDetails /\ [][NextSync]_vars /\ Answered

\* ------------------------------------------------- properties
Done(c) == sync[c].pc = "done"
Ok(c) == sync[c].result.name = "OK"
Failed(c) == Done(c) /\ ~Ok(c)

\* the external ids the store held when the find query of call c ran
Seen(c) == {d.tmdb_id : d \in trace[c].storeAtFind}

\* the positions of the candidates of call c whose external id was not stored
Fresh(c) ==
    {k \in 1..Len(sync[c].filteredMovies) : sync[c].filteredMovies[k].id \notin Seen(c)}

WithoutId(doc) == [doc EXCEPT !.id = 0]

\* the record a candidate is to become, local id aside
Normalized(movie) ==
    [tmdb_id |-> movie.id, id |-> 0, name |-> movie.original_title,
     overview |-> movie.overview, popularity |-> movie.popularity,
     voteAverage |-> movie.vote_average, voteCount |-> movie.vote_count,
     releaseDate |-> movie.release_date,
     genres |-> ExternalRequestGet(tmdbDetail[movie.id]).val.obj.genres]

WrappedMessage(err) == "Failed to update database: " \o err.message

\* C1: a successful updateDatabase() passes to insertMany exactly the
\* normalized candidates whose external id no stored record had when the find
\* query ran: one record per such candidate, and none whose id was stored.
C1_Deduplication ==
    \A c \in Calls : Ok(c) =>
        LET batch == trace[c].batch
            movies == sync[c].filteredMovies
        IN  /\ Len(batch) = Cardinality(Fresh(c))
            /\ \A k \in Fresh(c) : \E j \in 1..Len(batch) :
                   WithoutId(batch[j]) = Normalized(movies[k])
            /\ \A j \in 1..Len(batch) :
                   /\ batch[j].tmdb_id \notin Seen(c)
                   /\ \E k \in Fresh(c) : WithoutId(batch[j]) = Normalized(movies[k])

C1_Witness ==
    \E c \in Calls :
        /\ Ok(c) /\ trace[c].batch # <<>>
        /\ Len(trace[c].batch) < Len(sync[c].filteredMovies)

\* C2: no two stored records have the same external id (tmdb_id), whatever
\* the interleaving of updateDatabase, save, updateById and removeById.
C2_UniqueTmdbId ==
    \A d1 \in store : \A d2 \in store : d1.tmdb_id = d2.tmdb_id => d1 = d2

C2_Witness ==
    /\ Cardinality(store) >= 2
    /\ \E r \in Reqs :
           req[r].result.message = "Failed to create movie: E11000 duplicate key error"

\* C3: when an updateDatabase() call has returned successfully and a second
\* one runs right after it, with the same upstream answers and no other
\* operation from the start of the first to the end of the second, the
\* second issues no insert, leaves the store as it found it, and returns
\* updatedCount 0 unless its store query fails.
C3_Idempotence ==
    \A c \in Calls :
        LET a == trace[c].after
        IN  (a # 0 /\ trace[a].alone /\ Ok(a) /\ trace[c].alone /\ Done(c)) =>
                /\ trace[c].insertCalls = 0
                /\ trace[c].inserted = {}
                /\ trace[c].storeAtEnd = trace[c].storeAtStart
                /\ Cardinality(trace[c].storeAtEnd) = Cardinality(trace[c].storeAtStart)
                /\ \/ Ok(c) /\ sync[c].result.updatedCount = 0
                   \/ ~Ok(c) /\ trace[c].cause = StoreError

C3_Witness ==
    \E c \in Calls :
        /\ trace[c].after # 0 /\ trace[c].alone /\ Ok(c)
        /\ trace[trace[c].after].alone
        /\ Ok(trace[c].after) /\ sync[trace[c].after].result.updatedCount = 2
        /\ sync[c].result.updatedCount = 0

\* C4: once one detail fetch of a call has failed, the call has failed with
\* that error (a BadRequestException unchanged, any other wrapped), and it
\* never queries the store nor inserts, whatever the other fetches do.
C4_FailFast ==
    \A c \in Calls :
        LET err == trace[c].detailError
        IN  err # NoError =>
                /\ Failed(c)
                /\ IF err.name = BadRequestException
                   THEN sync[c].result.name = BadRequestException
                        /\ sync[c].result.message = err.message
                   ELSE sync[c].result.name = InternalServerErrorException
                        /\ sync[c].result.message = WrappedMessage(err)
                /\ trace[c].findCalls = 0 /\ ~trace[c].queried
                /\ trace[c].insertCalls = 0 /\ trace[c].inserted = {}

C4_Witness ==
    \E c \in Calls :
        /\ trace[c].detailError # NoError
        /\ Len(sync[c].filteredMovies) = 2
        /\ Len(sync[c].models) = 1 /\ sync[c].pending = {}

C6_SingleInsert ==
    \A c \in Calls :
        /\ trace[c].insertCalls <= 1
        /\ trace[c].insertCalls = 1 <=> (trace[c].queried /\ Fresh(c) # {})

C6_Witness ==
    \E c1 \in Calls : \E c2 \in Calls :
        /\ Done(c1) /\ trace[c1].insertCalls = 1
        /\ Ok(c2) /\ trace[c2].queried /\ trace[c2].insertCalls = 0

\* C7: a call that fails on a BadRequestException, which only the list and
\* detail steps raise, fails with that exception unchanged; a call that
\* fails on any other error fails with InternalServerErrorException
\* "Failed to update database: " followed by the original message.
C7_ErrorClassification ==
    \A c \in Calls :
        /\ Done(c) => sync[c].result.name \in
               {"OK", BadRequestException, InternalServerErrorException}
        /\ Failed(c) =>
               LET err == trace[c].cause
               IN  /\ err # NoError
                   /\ IF err.name = BadRequestException
                      THEN /\ sync[c].result.name = BadRequestException
                           /\ sync[c].result.message = err.message
                           /\ err.message \in
                                  {"Invalid response format from TMDB API",
                                   "Response contains movies with missing required fields",
                                   "Movie details not found"}
                           /\ trace[c].findCalls = 0
                      ELSE /\ sync[c].result.name = InternalServerErrorException
                           /\ sync[c].result.message = WrappedMessage(err)

C7_Witness ==
    \E c1 \in Calls : \E c2 \in Calls :
        /\ sync[c1].result.name = BadRequestException
        /\ sync[c2].result.name = InternalServerErrorException
        /\ sync[c2].result.message =
               "Failed to update database: Failed to fetch data from external source"

Settled(c) == trace[c].listCalls = 1 /\ sync[c].pc # "getMovies"

\* what ExternalRequest.get handed to getMovies
Response == ExternalRequestGet(tmdbList)

\* C9: whenever the response handed to getMovies is absent or no array,
\* getMovies fails with BadRequestException "Invalid response format from
\* TMDB API", whatever fields the response has.
C9_InvalidFormat ==
    \A c \in Calls :
        (Settled(c) /\ Response.ok /\ Response.val.t # "array") =>
            /\ trace[c].got =
                   Throw(BadRequestException, "Invalid response format from TMDB API")
            /\ sync[c].result.name = BadRequestException
            /\ sync[c].result.message = "Invalid response format from TMDB API"

C9_Witness ==
    \E c \in Calls :
        /\ Settled(c)
        /\ Response.ok /\ Response.val = JsObject(TmdbMovie(1))
        /\ sync[c].result.message = "Invalid response format from TMDB API"

\* C10: given an array, getMovies fails with BadRequestException "Response
\* contains movies with missing required fields", and hands over no
\* candidate, as soon as one element lacks one of the six required fields;
\* it returns the array as it is when no element lacks any.
C10_MissingRequiredFields ==
    \A c \in Calls :
        (Settled(c) /\ Response.ok /\ Response.val.t = "array") =>
            LET items == Response.val.items
            IN  IF \E k \in 1..Len(items) : \E f \in ListFields : items[k][f] = Undefined
                THEN /\ trace[c].got =
                            Throw(BadRequestException,
                                  "Response contains movies with missing required fields")
                     /\ sync[c].filteredMovies = <<>>
                     /\ trace[c].detailCalls = 0
                     /\ sync[c].result.name = BadRequestException
                ELSE /\ trace[c].got = Return(Response.val)
                     /\ sync[c].filteredMovies = items

C10_Witness ==
    \E c \in Calls :
        /\ Settled(c)
        /\ Response.ok /\ Response.val.t = "array"
        /\ Response.val.items = <<TmdbMovie(1), Lacking(TmdbMovie(1), {"release_date"})>>
        /\ sync[c].result.message = "Response contains movies with missing required fields"

\* the detail fetch made for candidate i of call c has settled
Fetched(c, i) ==
    trace[c].listed /\ i \in 1..Len(sync[c].filteredMovies) /\ i \notin sync[c].pending

\* what ExternalRequest.get handed to that detail fetch
DetailResponse(c, i) == ExternalRequestGet(tmdbDetail[sync[c].filteredMovies[i].id])

C11_Results ==
    \A c \in Calls : \A i \in 1..MaxList :
        (Fetched(c, i) /\ DetailResponse(c, i).ok) =>
            LET response == DetailResponse(c, i).val
                got == trace[c].details[i]
            IN  IF response.t \in {"falsy", "null", "undefined"}
                THEN got = Throw(BadRequestException, "Movie details not found")
                ELSE IF response.obj.genres = Undefined
                THEN got = Throw(BadRequestException,
                                 "Response contains movies with missing required fields")
                ELSE got = Return(response)

\* a step in which a detail fetch settles
DetailStep == \E c \in Calls : sync'[c].pending # sync[c].pending /\ sync[c].pc # "getMovies"

\* C11: getMovieDetails fails with "Movie details not found" when the
\* response is absent (also when it lacks genres, as an absent one does),
\* fails with "Response contains movies with missing required fields" when
\* the response is there without genres, returns the response as it is
\* otherwise, and the step in which it settles leaves the store alone.
C11_FetchDetails == [](C11_Results) /\ [][DetailStep => store' = store]_vars

C11_Witness ==
    \E c \in Calls :
        /\ Fetched(c, 1) /\ Fetched(c, 2)
        /\ trace[c].details[1] = Throw(BadRequestException, "Movie details not found")
        /\ trace[c].details[2] =
               Throw(BadRequestException,
                     "Response contains movies with missing required fields")

\* the listed fields that the record of the direct call does not define
Missing ==
    {k \in 1..Len(validation.requiredFields) :
        validation.movie[validation.requiredFields[k]].t = "undefined"}

\* C12: isValidMovie returns true exactly when no listed field is undefined
\* on the record: a field that is there with 0, "" or null passes, a
\* missing one fails, and the empty list accepts every record.
C12_Definedness ==
    validation.pc = "done" =>
        /\ validation.result <=> Missing = {}
        /\ validation.requiredFields = <<>> => validation.result
        /\ (\A k \in 1..Len(validation.requiredFields) :
               validation.movie[validation.requiredFields[k]] \in {Str(0), Num(0)})
               => validation.result

C12_Witness ==
    /\ validation.pc = "done" /\ validation.result
    /\ validation.requiredFields = <<"original_title", "overview">>
    /\ validation.movie.original_title = Str(0)
    /\ validation.movie.overview = Num(0)

\* C13: given an empty array, under results or bare, getMovies returns it:
\* it raises no "Invalid response format from TMDB API", and the call goes
\* on with no candidate.
C13_EmptyArray ==
    \A c \in Calls :
        (Settled(c) /\ Response.ok /\ Response.val.t = "array"
                    /\ Response.val.items = <<>>) =>
            /\ trace[c].got = Return(JsArray(<<>>))
            /\ trace[c].listed
            /\ sync[c].filteredMovies = <<>>
            /\ trace[c].cause.name # BadRequestException
            /\ sync[c].result.name # BadRequestException

C13_Witness ==
    \E c \in Calls :
        /\ Settled(c) /\ tmdbList = Json(JsArray(<<>>), JsUndefined)
        /\ trace[c].got = Return(JsArray(<<>>))
        /\ trace[c].findCalls = 1

\* ------------------------------------------------- PersistenceService claims
\* request s is a save that returned its record
Saved(s) == req[s].op = "save" /\ req[s].pc = "done" /\ req[s].result.name = "OK"

\* request d is a removeById that succeeded
Removed(d) == req[d].op = "removeById" /\ req[d].pc = "done" /\ req[d].result.name = "OK"

\* request f is a findById of id that began after request q had ended
FoundAfter(f, q, id) ==
    /\ req[f].op = "findById" /\ req[f].pc = "done" /\ req[f].id = id
    /\ q \in req[f].earlier

\* no updateById or removeById of id began before findById f ended
Undisturbed(f, id) ==
    \A q \in DOMAIN req :
        (req[q].op \in {"updateById", "removeById"} /\ req[q].id = id)
            => f \in req[q].earlier

\* findById's answer when the store itself fails
FindFailure == Rejected(Wrapped("Failed to find movie: ", StoreError))

\* C14: a findById of the id save returned, made after the save and with no
\* update or delete of that id in between, returns a record with that id
\* whose other fields equal the dto given to save; a findById of the id made
\* after removeById of it succeeded fails with NotFoundException (each
\* unless the store fails the lookup itself).
C14_RoundTrip ==
    /\ \A s, f \in DOMAIN req : \A doc \in req[s].result.docs :
            (Saved(s) /\ FoundAfter(f, s, doc.id) /\ Undisturbed(f, doc.id)
                /\ req[f].result # FindFailure)
                => /\ req[f].result.name = "OK"
                   /\ req[f].result.docs # {}
                   /\ \A m \in req[f].result.docs :
                          m.id = doc.id /\ WithoutId(m) = WithoutId(req[s].input)
    /\ \A d, f \in DOMAIN req :
            (Removed(d) /\ FoundAfter(f, d, req[d].id) /\ req[f].result # FindFailure)
                => req[f].result = Rejected(NotFound(req[d].id))

\* a record was saved, found again with the fields it was saved with, and
\* then deleted
C14_Witness ==
    \E s, f, d \in DOMAIN req : \E doc \in req[s].result.docs :
        /\ Saved(s) /\ FoundAfter(f, s, doc.id)
        /\ req[f].result.docs = {doc}
        /\ WithoutId(doc) = WithoutId(req[s].input)
        /\ Removed(d) /\ req[d].id = doc.id /\ req[d].result.docs = {doc}
        /\ f \in req[d].earlier
        /\ doc \notin store

\* request r is a lookup by id that began when no stored record had the id
Absent(r) ==
    /\ req[r].op \in {"findById", "updateById", "removeById"}
    /\ req[r].pc # "idle"
    /\ ~req[r].existed

C15_Results ==
    \A r \in DOMAIN req :
        (Absent(r) /\ req[r].pc = "done" /\ req[r].cause = NoError)
            => req[r].result = Rejected(NotFound(req[r].id))

\* a step of a lookup by an id that no record has
AbsentStep == \E r \in DOMAIN req : req'[r] # req[r] /\ Absent(r)'

\* C15: findById, updateById and removeById with an id that no stored record
\* has end, once the store has answered the lookup, with NotFoundException
\* (neither an InternalServerErrorException nor a success), and no step of
\* theirs changes the collection.
C15_NotFound == [](C15_Results) /\ [][AbsentStep => store' = store]_vars

\* next to a stored record, an updateById and a removeById with an id that
\* no record has have both ended with NotFoundException
C15_Witness ==
    \E u, d \in DOMAIN req :
        /\ req[u].op = "updateById" /\ req[d].op = "removeById"
        /\ Absent(u) /\ Absent(d)
        /\ req[u].result.name = NotFoundException
        /\ req[d].result.name = NotFoundException
        /\ store # {}

\* the create of save r returns its document
Creates(r) ==
    /\ req[r].op = "save" /\ req[r].pc = "create"
    /\ req'[r].pc = "done" /\ req'[r].result.name = "OK"

C19_Step ==
    \A r \in DOMAIN req :
        Creates(r) =>
            \E doc \in req'[r].result.docs :
                /\ req'[r].result.docs = {doc}
                /\ store' = store \cup {doc}
                /\ doc.id \notin {0, req[r].input.id}
                /\ \A d \in store : d.id # doc.id
                /\ \A q \in DOMAIN req : \A d \in req[q].result.docs : d.id # doc.id
                /\ WithoutId(doc) = WithoutId(req[r].input)

\* C19: a save that succeeds adds one record to the collection and returns
\* it; its id is one that no record, stored or returned earlier, has, and not
\* the id its input carried; its other fields are the input's.
C19_SaveGeneratesId == [][C19_Step]_vars

\* a save whose input carried the id of a stored record has stored its own
\* record next to that one
C19_Witness ==
    \E r \in DOMAIN req : \E doc \in req[r].result.docs : \E d \in store :
        /\ Saved(r)
        /\ req[r].input.id = d.id
        /\ doc \in store /\ doc # d
        /\ WithoutId(doc) = WithoutId(req[r].input)

\* the prefixes under which the five methods report a store failure
FailurePrefixes ==
    [save |-> "Failed to create movie: ", findAll |-> "Failed to find movies: ",
     findById |-> "Failed to find movie: ", updateById |-> "Failed to update movie: ",
     removeById |-> "Failed to delete movie: "]

\* C20: a request of save, findAll, findById, updateById or removeById in
\* which a store operation failed (the lookup before an update or a delete
\* included) ends with InternalServerErrorException whose message carries
\* the message of the store's error.
C20_StoreFailuresWrapped ==
    \A r \in DOMAIN req :
        (req[r].pc = "done" /\ req[r].cause # NoError)
            => req[r].result = Rejected(Wrapped(FailurePrefixes[req[r].op], req[r].cause))

\* ------------------------------------------------- overlapping calls
\* Call c1 inserted doc, and call c2, whose query had not seen doc, issued an
\* insert of a record with the same external id that the store answered
\* with doc in the collection: c2 queried before c1 inserted, and both took
\* the external id for new.
Raced(c1, c2, doc) ==
    /\ c1 # c2
    /\ doc \in trace[c1].inserted
    /\ sync[c2].pc = "done" /\ trace[c2].insertCalls = 1
    /\ doc.tmdb_id \in TmdbIds(trace[c2].batch)
    /\ doc \notin trace[c2].storeAtFind
    /\ doc \in trace[c2].storeAtEnd

\* C16: two overlapping calls can both query before either inserts, both
\* take the same external id for new and both issue an insert of a record
\* for it (the witness); the insert that the store runs second is then
\* refused: its call ends with InternalServerErrorException and has stored
\* no record for that external id.
C16_OverlapRace ==
    \A c1, c2 \in Calls : \A doc \in trace[c1].inserted :
        Raced(c1, c2, doc)
            => /\ sync[c2].result.name = InternalServerErrorException
               /\ \A d \in trace[c2].inserted : d.tmdb_id # doc.tmdb_id

\* both calls queried before either inserted, both took the external id for
\* new, the first insert stored its record and the second was refused with
\* the duplicate key error
C16_Witness ==
    \E c1, c2 \in Calls : \E doc \in trace[c1].inserted :
        /\ Raced(c1, c2, doc)
        /\ doc \notin trace[c1].storeAtFind
        /\ trace[c1].queried /\ trace[c2].queried
        /\ sync[c1].result.name = "OK"
        /\ trace[c2].cause = DuplicateKeyError

\* ------------------------------------------------- step ordering
\* the detail fetches of call c that have fulfilled
Fulfilled(c) == {i \in 1..MaxList : trace[c].details[i].ok /\ Fetched(c, i)}

\* C17: a call issues the list fetch once, first; one detail fetch per
\* candidate, after the list came back, and none again; the store query
\* once, only after every detail fetch has fulfilled; the insert at most
\* once, only after the query has returned.
C17_StepOrder ==
    \A c \in Calls :
        /\ trace[c].listCalls = (IF sync[c].pc = "idle" THEN 0 ELSE 1)
        /\ trace[c].detailCalls =
               (IF trace[c].listed THEN Len(sync[c].filteredMovies) ELSE 0)
        /\ trace[c].listed => trace[c].listCalls = 1
        /\ trace[c].findCalls \in {0, 1}
        /\ trace[c].findCalls = 1 =>
               /\ trace[c].listed
               /\ sync[c].pending = {}
               /\ Fulfilled(c) = 1..Len(sync[c].filteredMovies)
               /\ Len(sync[c].models) = Len(sync[c].filteredMovies)
        /\ trace[c].insertCalls \in {0, 1}
        /\ trace[c].insertCalls = 1 => trace[c].queried /\ trace[c].findCalls = 1
        /\ trace[c].queried => trace[c].findCalls = 1

\* a call with two candidates went through all four steps
C17_Witness ==
    \E c \in Calls :
        /\ sync[c].pc = "done" /\ sync[c].result.name = "OK"
        /\ Len(sync[c].filteredMovies) = 2
        /\ trace[c].listCalls = 1 /\ trace[c].detailCalls = 2
        /\ trace[c].findCalls = 1 /\ trace[c].insertCalls = 1

\* ------------------------------------------------- normalization
\* record m is candidate i of call c, normalized: the list element's fields
\* under the record's names and the genres its detail fetch returned
NormalizedFrom(c, m, i) ==
    LET movie == sync[c].filteredMovies[i]
        details == trace[c].details[i]
    IN  /\ details.ok
        /\ m.tmdb_id = movie.id
        /\ m.name = movie.original_title
        /\ m.overview = movie.overview
        /\ m.popularity = movie.popularity
        /\ m.voteAverage = movie.vote_average
        /\ m.voteCount = movie.vote_count
        /\ m.releaseDate = movie.release_date
        /\ m.genres = details.val.obj.genres
        /\ details.val.obj.id = movie.id

\* the local ids known when call c builds its records: those of the records
\* stored when it began and when it queried, and those other calls generated
KnownIds(c) ==
    {d.id : d \in trace[c].storeAtStart \cup trace[c].storeAtFind}
        \cup {0}
        \cup UNION {{sync[x].models[k].id : k \in 1..Len(sync[x].models)} :
                        x \in Calls \ {c}}

\* C18: every record a call builds, and so every record it inserts, has the
\* fields of one of its candidates copied over, the genres that the detail
\* fetch for that candidate's external id returned, and a local id of its
\* own, in whatever order the detail fetches completed.
C18_Normalization ==
    \A c \in Calls :
        LET models == sync[c].models
        IN  /\ \A k \in 1..Len(models) :
                   /\ \E i \in 1..Len(sync[c].filteredMovies) :
                          Fetched(c, i) /\ NormalizedFrom(c, models[k], i)
                   /\ models[k].id \notin KnownIds(c)
                   /\ \A j \in 1..Len(models) : j # k => models[j].id # models[k].id
            /\ \A k \in 1..Len(trace[c].batch) :
                   \E j \in 1..Len(models) : trace[c].batch[k] = models[j]
            /\ \A d \in trace[c].inserted :
                   \E k \in 1..Len(trace[c].batch) : d = trace[c].batch[k]

\* the detail fetch of the second candidate completed first, and both
\* records were inserted, each with its own candidate's fields and genres
C18_Witness ==
    \E c \in Calls :
        /\ Len(sync[c].models) = 2
        /\ sync[c].filteredMovies[1].id # sync[c].filteredMovies[2].id
        /\ NormalizedFrom(c, sync[c].models[1], 2)
        /\ NormalizedFrom(c, sync[c].models[2], 1)
        /\ sync[c].models[1].genres # sync[c].models[2].genres
        /\ trace[c].inserted = {sync[c].models[1], sync[c].models[2]}

\* ------------------------------------------------- the two creation paths
C21_SaveStep ==
    \A r \in DOMAIN req :
        /\ (req[r].pc = "idle" /\ req'[r].op = "save") => req'[r].pc = "create"
        /\ (req[r].op = "save" /\ req[r].pc = "create" /\ req'[r].pc = "done"
                /\ req'[r].result.name # "OK")
               => /\ req'[r].cause # NoError
                  /\ req'[r].result =
                         Rejected(Wrapped(FailurePrefixes.save, req'[r].cause))

\* C21: save issues the insert without a lookup of the external id, whatever
\* the collection holds, and a save that is refused is refused by the store
\* (its error, wrapped), never by a check of the service; updateDatabase
\* hands to insertMany no record whose external id its query found stored.
C21_Asymmetric ==
    /\ [](\A c \in Calls : TmdbIds(trace[c].batch) \cap Seen(c) = {})
    /\ [][C21_SaveStep]_vars

\* a save of an external id that updateDatabase had stored went to the
\* store and was refused there, by the unique index
C21_Witness ==
    \E r \in DOMAIN req : \E c \in Calls : \E d \in trace[c].inserted :
        /\ req[r].op = "save" /\ req[r].pc = "done"
        /\ req[r].input.tmdb_id = d.tmdb_id
        /\ d \in store
        /\ req[r].cause = DuplicateKeyError
        /\ req[r].result.name = InternalServerErrorException

\* ------------------------------------------------- HTTP responses
\* the status an outcome must be answered with
StatusOf(result) ==
    IF result.name = BadRequestException THEN {400}
    ELSE IF result.name = NotFoundException THEN {404}
    ELSE IF result.name = "OK" THEN {200, 201}
    ELSE {500}

\* C22: every outcome is answered with the status of its error when that is
\* an HttpException and with 500 otherwise: a call that ended on a
\* validation error of the fetch stage is answered 400, one that ended on a
\* store error 500, a request that found no record 404, and an error never
\* 2xx.
C22_StatusMapping ==
    /\ \A c \in Calls :
           sync[c].pc = "done" =>
               /\ sync[c].result.statusCode \in StatusOf(sync[c].result)
               /\ trace[c].cause.name = BadRequestException
                      => sync[c].result.statusCode = 400
               /\ trace[c].cause \in {StoreError, DuplicateKeyError, ValidationError}
                      => sync[c].result.statusCode = 500
               /\ Ok(c) <=> sync[c].result.statusCode \in 200..299
    /\ \A r \in DOMAIN req :
           req[r].pc = "done" =>
               /\ req[r].result.statusCode \in StatusOf(req[r].result)
               /\ req[r].cause # NoError => req[r].result.statusCode = 500
               /\ (req[r].op \in {"findById", "updateById", "removeById"}
                      /\ ~req[r].existed /\ req[r].cause = NoError)
                      => req[r].result.statusCode = 404
               /\ req[r].result.name = "OK" <=> req[r].result.statusCode \in 200..299

\* a call was answered 400 for a validation error of the fetch stage, and a
\* removeById whose lookup the store failed, an error that is no
\* HttpException, was answered 500
C22_Witness ==
    \E c \in Calls : \E r \in DOMAIN req :
        /\ sync[c].pc = "done" /\ trace[c].cause.name = BadRequestException
        /\ sync[c].result.statusCode = 400
        /\ req[r].pc = "done" /\ req[r].result.name \notin HttpExceptions \cup {"OK"}
        /\ req[r].result.statusCode = 500

\* ------------------------------------------------- termination
\* a call suspended on Promise.all has a detail fetch outstanding and none
\* of its detail fetches has failed
Suspended(c) ==
    sync[c].pc = "details" =>
        /\ sync[c].pending # {}
        /\ \A i \in 1..Len(sync[c].filteredMovies) :
               Fetched(c, i) => trace[c].details[i].ok

\* C23: when every fetch and every store operation is eventually answered,
\* a call that has started eventually ends with a success or an error; while
\* it waits for its detail fetches one of them is outstanding and none has
\* failed.
C23_Termination ==
    /\ [](\A c \in Calls : Suspended(c))
    /\ \A c \in Calls :
           (sync[c].pc # "idle") ~> (sync[c].pc = "done" /\ sync[c].result # NoResult)

\* both calls have ended, one with a success and one with an error, and no
\* detail fetch of theirs is outstanding
C23_Witness ==
    \E c1, c2 \in Calls :
        /\ sync[c1].pc = "done" /\ Ok(c1) /\ Len(sync[c1].filteredMovies) = 2
        /\ sync[c2].pc = "done" /\ ~Ok(c2)
        /\ sync[c1].pending = {} /\ sync[c2].pending = {}

\* ------------------------------------------------- check, then act
\* the errors the store itself raises
StoreErrors == {StoreError, DuplicateKeyError, ValidationError}

\* Request r, whose lookup found the record, has its update or delete
\* answered by the store.
C24_Step ==
    \A r \in DOMAIN req :
        (req[r].pc \in {"findOneAndUpdate", "findOneAndDelete"}
            /\ req'[r].pc = "done" /\ req'[r].cause \notin StoreErrors)
            => IF findOne(store, req[r].id) = {}
               THEN req'[r].result = Resolved({}) /\ store' = store
               ELSE req'[r].result.name = "OK" /\ req'[r].result.docs # {}

\* C24: an updateById or removeById whose lookup found the record, and whose
\* update or delete runs when a concurrent request has deleted it, returns
\* null as a success (not NotFoundException) and changes nothing; when the
\* record is still there it returns the record.
C24_CheckThenAct == [][C24_Step]_vars

\* an updateById found the record, a concurrent removeById deleted it, and
\* the updateById returned null with status 200
C24_Witness ==
    \E u, d \in DOMAIN req :
        /\ req[u].op = "updateById" /\ req[u].pc = "done" /\ req[u].existed
        /\ req[u].result = Resolved({})
        /\ Removed(d) /\ req[d].id = req[u].id /\ req[d].result.docs # {}
        /\ u \notin req[d].earlier /\ d \notin req[u].earlier

\* ------------------------------------------------- frame of updateDatabase
\* the step is taken by a call and by no request
SyncStep == req' = req /\ \E c \in Calls : sync'[c] # sync[c]

C27_Step ==
    SyncStep =>
        /\ store \subseteq store'
        /\ \A d \in store' \ store :
               \E c \in Calls :
                   /\ sync[c].pc = "insertMany" /\ sync'[c].pc = "done"
                   /\ d \in {sync[c].newMovies[k] : k \in 1..Len(sync[c].newMovies)}
                   /\ d.tmdb_id \notin Seen(c)
                   /\ \A e \in store : e.tmdb_id # d.tmdb_id /\ e.id # d.id

\* C27: no step of an updateDatabase() call, successful or not, removes a
\* stored record or changes one; the only records it adds are records of
\* its batch, whose external ids its query had found absent (and which no
\* stored record has).
C27_Frame == [][C27_Step]_vars

\* a call that found one of its two candidates stored has added the other
\* and left the stored one, and a record a request had saved, as they were
C27_Witness ==
    \E c \in Calls : \E r \in DOMAIN req :
        /\ sync[c].pc = "done" /\ Ok(c)
        /\ Len(sync[c].models) = 2 /\ Cardinality(trace[c].inserted) = 1
        /\ trace[c].storeAtFind # {}
        /\ trace[c].storeAtFind \subseteq store
        /\ trace[c].inserted \subseteq store
        /\ Saved(r) /\ req[r].result.docs \subseteq trace[c].storeAtFind

\* ------------------------------------------------- late detail fetches
\* Call c has ended on a failed detail fetch, and a detail fetch of its that
\* was still in flight completes.
LateStep(c) ==
    /\ sync[c].pc = "done" /\ trace[c].detailError # NoError
    /\ sync'[c].pending # sync[c].pending

\* C29: once a call has reported the failure of a detail fetch, the detail
\* fetches of it that complete later issue no store query and no insert,
\* leave the collection alone and leave the reported outcome as it was.
C29_LateFetches ==
    [][\A c \in Calls :
          LateStep(c) =>
              /\ sync'[c].pc = "done"
              /\ sync'[c].result = sync[c].result
              /\ trace'[c].findCalls = 0 /\ trace'[c].insertCalls = 0
              /\ trace'[c].cause = trace[c].cause
              /\ store' = store]_vars

\* the first detail fetch failed and the call reported it; the second one
\* completed afterwards, successfully, and pushed its record
C29_Witness ==
    \E c \in Calls :
        /\ sync[c].pc = "done" /\ trace[c].detailError # NoError
        /\ sync[c].result.statusCode = 400
        /\ Len(sync[c].filteredMovies) = 2 /\ sync[c].pending = {}
        /\ Len(sync[c].models) = 1
        /\ ~trace[c].details[1].ok /\ trace[c].details[2].ok
        /\ sync[c].models[1].tmdb_id = sync[c].filteredMovies[2].id
        /\ trace[c].findCalls = 0 /\ store = {}

\* ------------------------------------------------- null is defined
\* the elements of the list that the discover endpoint answered
ListedMovies == ExternalRequestGet(tmdbList).val.items

\* C30: a required field that is there with the value null counts as
\* defined. getMovies accepts a list whose elements have every required
\* field, null or not; getMovieDetails accepts a response whose genres is
\* null; and the record built from them carries the nulls.
C30_NullIsDefined ==
    \A c \in Calls :
        /\ (sync[c].pc \notin {"idle", "getMovies"}
               /\ \A k \in 1..Len(ListedMovies) : \A f \in ListFields :
                      ListedMovies[k][f] # Undefined)
               => trace[c].got.ok /\ sync[c].filteredMovies = ListedMovies
        /\ \A i \in 1..MaxList :
               (Fetched(c, i) /\ DetailResponse(c, i).ok
                   /\ DetailResponse(c, i).val.t = "object"
                   /\ DetailResponse(c, i).val.obj.genres = Null)
                   => /\ trace[c].details[i].ok
                      /\ \E k \in 1..Len(sync[c].models) :
                             /\ sync[c].models[k].genres = Null
                             /\ sync[c].models[k].name = sync[c].filteredMovies[i].original_title
                             /\ sync[c].models[k].overview = sync[c].filteredMovies[i].overview

\* a record with a null title, a null synopsis and a null genre list was
\* built and handed to insertMany
C30_Witness ==
    \E c \in Calls : \E k \in 1..Len(sync[c].newMovies) :
        /\ sync[c].newMovies[k].name = Null
        /\ sync[c].newMovies[k].overview = Null
        /\ sync[c].newMovies[k].genres = Null
        /\ trace[c].insertCalls = 1

\* ------------------------------------------------- the batch
\* C25: the batch a call hands to insertMany never holds two records with
\* the same external id, also when the list repeats an external id.
C25_BatchDistinct ==
    \A c \in Calls : \A j, k \in 1..Len(trace[c].batch) :
        j # k => trace[c].batch[j].tmdb_id # trace[c].batch[k].tmdb_id

\* ------------------------------------------------- failure and the store
\* C26 as stated: a call that ends with an error has added none of the
\* records of its batch to the store.
C26_Atomic ==
    \A c \in Calls : Failed(c) => trace[c].inserted = {}

\* C26, amended: a call that ends with an error other than a uniqueness
\* violation of its insert has added nothing; when its insert stops at a
\* uniqueness violation, the records of the batch before the refused one
\* have been added, the refused one and those after it have not.
C26_PrefixOnFailure ==
    \A c \in Calls :
        Failed(c) =>
            IF trace[c].cause = DuplicateKeyError
            THEN \E n \in 0..(Len(trace[c].batch) - 1) :
                    /\ trace[c].inserted = {trace[c].batch[k] : k \in 1..n}
                    /\ DuplicateKey(trace[c].storeAtEnd, trace[c].batch[n + 1])
            ELSE trace[c].inserted = {}

\* a batch of two records with different external ids: the first was stored,
\* the second met a record that arrived after the call's query, and the
\* call failed with the first one left in the store
C26_Witness ==
    \E c \in Calls :
        /\ Failed(c) /\ trace[c].cause = DuplicateKeyError
        /\ sync[c].result.name = InternalServerErrorException
        /\ Len(trace[c].batch) = 2
        /\ trace[c].batch[1].tmdb_id # trace[c].batch[2].tmdb_id
        /\ trace[c].inserted = {trace[c].batch[1]}
        /\ trace[c].batch[1] \in store

\* ------------------------------------------------- order of completion
\* the records call c builds when its detail fetches complete in the order
\* of the list
InListOrder(c) ==
    [i \in 1..Len(sync[c].filteredMovies) |->
        Model(sync[c].filteredMovies[i], trace[c].details[i].val, randomUUID(c, i))]

\* what the call inserts and returns in that order, from the collection its
\* query saw
OutcomeInListOrder(c) ==
    LET models == InListOrder(c)
        docs == trace[c].storeAtFind
        existingTmdbIds == {m.tmdb_id : m \in find(docs, TmdbIds(models))}
        newMovies == NewMovies(models, existingTmdbIds)
        out == IF ShouldInsert(newMovies) THEN insertMany(docs, newMovies)
               ELSE [docs |-> docs, err |-> NoError]
    IN  [inserted |-> {WithoutId(d) : d \in out.docs \ docs},
         ok |-> out.err = NoError,
         updatedCount |-> IF out.err = NoError THEN UpdatedCount(models, newMovies) ELSE 0]

\* call c ran to its end on a store that answered
Completed(c) ==
    /\ sync[c].pc = "done" /\ trace[c].queried
    /\ trace[c].cause # StoreError

\* C28: for a given list, given detail answers and a given collection, the
\* records a call inserts (local ids aside) and the updatedCount it returns
\* are those of the run in which the detail fetches complete in list order,
\* whatever order they complete in.
C28_OrderIndependent ==
    \A c \in Calls :
        Completed(c) =>
            /\ {WithoutId(d) : d \in trace[c].inserted} = OutcomeInListOrder(c).inserted
            /\ Ok(c) = OutcomeInListOrder(c).ok
            /\ sync[c].result.updatedCount = OutcomeInListOrder(c).updatedCount
====
